---- MODULE Spec2Model ----
(***************************************************************************)
(* Model of climm's deployment engine (src/src/game.rs): the ordered mods  *)
(* map of one game, the extractor driver, the uninstaller, the installer,  *)
(* the plugin-manifest writer and the deploy pipeline that chains them,    *)
(* then the global config, Game::add, Game::get_mod and the saving of the  *)
(* per-game config when a Game is released.                                *)
(*                                                                         *)
(* Paths are sequences of path components.  The install directory is a     *)
(* map from the paths of its files to the source file each link resolves   *)
(* to, together with the set of its directories.                           *)
(***************************************************************************)
EXTENDS Integers, Sequences, FiniteSets, TLC

\* Longest sequence of subpaths the FOMOD selector returns in the model.
MaxParts == 2

\* Longest list of paths one call of Game::add is given in the model.
MaxAdd == 2

\* Longest name Game::get_mod is asked for in the model.
MaxQuery == 2

\* Number of deploy stages the environment disturbs in one behaviour (the
\* archive tool failing, an extraction tree that cannot be walked, the
\* selector or the creation of the plugins file failing).
MaxFaults == 1

\* Option<T>: None is the empty sequence, Some(x) the one-element sequence.
None == <<>>
Some(x) == <<x>>
IsSome(o) == o # <<>>
Unwrap(o) == o[1]

Ok == "Ok"
NoResult == "none"

GameName == "g"
LibraryDir == <<"lib">>
ModNames == {"a", "b", "c"}

----------------------------------------------------------------------------
\* Paths

IsPrefix(top, path) ==
    /\ Len(top) <= Len(path)
    /\ SubSeq(path, 1, Len(top)) = top

\* Path::join for a relative right-hand side.
Join(base, rel) == base \o rel

\* pathdiff::diff_paths(path, top) for a path at or below top: the suffix of
\* path after top.  (For other paths the crate builds a path of ".."
\* components; the engine never asks for one, None stands for it.)
diff_paths(path, top) ==
    IF IsPrefix(top, path)
    THEN Some(SubSeq(path, Len(top) + 1, Len(path)))
    ELSE None

\* differ(top) is the closure |path| diff_paths(path, top).
differ(top, path) == diff_paths(path, top)

\* Path::file_name: the last component, None for the empty path and for a
\* path that ends in "..".
file_name(path) ==
    IF Len(path) = 0 \/ path[Len(path)] = ".." THEN None
    ELSE Some(path[Len(path)])

\* Path::extension of the names that occur in the archives: the part of the
\* file name after its last dot, None when the name has no dot.
NameExtension(name) ==
    CASE name = "x.esp" -> Some("esp")
      [] name = "c.esp" -> Some("esp")
      [] name = "geom.esp" -> Some("esp")
      [] name = "y.esm" -> Some("esm")
      [] name = "o.esl" -> Some("esl")
      [] name = "U.ESP" -> Some("ESP")
      [] name = "foo.txt" -> Some("txt")
      [] name = "z.txt" -> Some("txt")
      [] name = "head.nif" -> Some("nif")
      [] name = "ModuleConfig.xml" -> Some("xml")
      [] name = "user.ini" -> Some("ini")
      [] OTHER -> None

extension(path) ==
    IF file_name(path) = None THEN None
    ELSE NameExtension(Unwrap(file_name(path)))

\* library::extracted_dir(game, mod) = <library>/<game>/extracted/<mod>
extracted_dir(game, name) == LibraryDir \o <<game, "extracted", name>>

\* library::downloads_dir(game) = <library>/<game>/downloads
downloads_dir(game) == LibraryDir \o <<game, "downloads">>

----------------------------------------------------------------------------
\* The archives: what the archive tool expands each mod's archive into, as
\* the entries of its tree relative to the extraction root, in the order a
\* walk of the root yields them (a directory before its contents, the root
\* first).

E(path, isFile) == [path |-> path, isFile |-> isFile]

ArchiveTree(name) ==
    CASE name = "a" ->
           << E(<<>>, FALSE),
              E(<<"foo.txt">>, TRUE),
              E(<<"x.esp">>, TRUE) >>
      [] name = "b" ->
           << E(<<>>, FALSE),
              E(<<"foo.txt">>, TRUE),
              E(<<"y.esm">>, TRUE),
              E(<<"z.txt">>, TRUE),
              E(<<"alt">>, FALSE),
              E(<<"alt", "y.esm">>, TRUE),
              E(<<"geom.esp">>, FALSE),
              E(<<"geom.esp", "head.nif">>, TRUE) >>
      [] name = "c" ->
           << E(<<>>, FALSE),
              E(<<"ModuleConfig.xml">>, TRUE),
              E(<<"core">>, FALSE),
              E(<<"core", "foo.txt">>, TRUE),
              E(<<"core", "c.esp">>, TRUE),
              E(<<"opt1">>, FALSE),
              E(<<"opt1", "o.esl">>, TRUE) >>
      [] OTHER -> <<>>

\* The entries on disk below the extraction directories, with absolute paths.
DiskTree(name) ==
    [i \in 1..Len(ArchiveTree(name)) |->
        E(Join(extracted_dir(GameName, name), ArchiveTree(name)[i].path),
          ArchiveTree(name)[i].isFile)]

\* The mod whose extraction directory a path lies in.
OwnerOf(path) ==
    IF \E n \in ModNames : IsPrefix(extracted_dir(GameName, n), path)
    THEN Some(CHOOSE n \in ModNames : IsPrefix(extracted_dir(GameName, n), path))
    ELSE None

\* The directories on disk below the extraction directories.
DiskDirs ==
    UNION {{DiskTree(n)[i].path :
              i \in {j \in 1..Len(DiskTree(n)) : ~DiskTree(n)[j].isFile}} :
           n \in ModNames}

\* For every such directory, the entries at and below it, in walk order.
WalkTable ==
    [root \in DiskDirs |->
        SelectSeq(DiskTree(Unwrap(OwnerOf(root))),
                  LAMBDA e : IsPrefix(root, e.path))]

\* WalkDir::new(root): the entries at and below root, in walk order.  A root
\* that does not exist yields nothing here (the walk's error is modelled by
\* the stages that propagate it).
WalkDir(root) ==
    IF root \in DiskDirs THEN WalkTable[root] ELSE <<>>

\* The directories of a mod's tree below its root: what the FOMOD selector
\* offers.
SubDirs(name) ==
    {DiskTree(name)[i].path : i \in
        {j \in 1..Len(DiskTree(name)) :
            /\ ~DiskTree(name)[j].isFile
            /\ DiskTree(name)[j].path # extracted_dir(GameName, name)}}

----------------------------------------------------------------------------
\* ManagedMod

\* ManagedMod::new(archive)
NewManagedMod(name, archive) ==
    [name |-> name, enabled |-> FALSE, extracted |-> None,
     archive |-> archive, parts |-> <<>>]

\* ManagedMod::part_paths
part_paths(mm) ==
    IF mm.parts = <<>>
    THEN IF IsSome(mm.extracted) THEN <<Unwrap(mm.extracted)>> ELSE <<>>
    ELSE mm.parts

----------------------------------------------------------------------------
\* State

VARIABLES
    config,       \* Config without mods: game_folder, data_folder, plugins_file, deployment
    mods,         \* Config.mods: the ordered map, as a sequence of entries
    files,        \* install tree: path of each file |-> the source file it resolves to
    dirs,         \* install tree: the directories that exist
    plugins,      \* lines of the plugins file, None while it does not exist
    pc,           \* position of Game::deploy: "idle" or the stage to run next
    result,       \* what the last finished deploy returned, None before/while one runs
    stages,       \* stages the current (or last) deploy has run, with what each returned
    toolInvoked,  \* mods the archive tool was run for in the current deploy
    toolFailed,   \* mods for which it exited unsuccessfully in the current deploy
    fomodAsked,   \* mods the FOMOD selector was run for in the current deploy
    fomodDone,    \* mods whose selector result has been stored in parts
    folders,      \* install folders used for each mod in the current deploy
    pluginMods,   \* for each line of plugins, the mod whose walk produced it
    startPlugins, \* plugins as it was when the current deploy started
    hist,         \* outcome of the deploy before, if mods did not change since
    faults,       \* stages the environment has disturbed so far
    games,        \* GlobalConfig.games
    active_game,  \* GlobalConfig.active_game
    gconfigs,     \* the per-game config file of each game name, None if absent
    initRes,      \* the last init_game call: its name and what it returned
    sources,      \* the archive files that exist outside the library
    saved,        \* the per-game config file of GameName, as Game::save wrote it
    query,        \* the name Game::get_mod is asked for
    lookup        \* what Game::get_mod returned, None before the call

\* The state outside the deployment engine: the global config, the archives a
\* user can add, the persisted config and the lookup.
auxVars == <<games, active_game, gconfigs, initRes, sources, saved, query,
             lookup>>

\* The state of the deployment engine.
deployVars == <<config, mods, files, dirs, plugins, pc, result, stages,
                toolInvoked, toolFailed, fomodAsked, fomodDone, folders,
                pluginMods, startPlugins, hist, faults>>

vars == <<config, mods, files, dirs, plugins, pc, result, stages, toolInvoked,
          toolFailed, fomodAsked, fomodDone, folders, pluginMods, startPlugins,
          hist, faults, auxVars>>

External == <<"external">>
PluginExtensions == {"esp", "esm", "esl"}
StageOrder == <<"extract", "uninstall", "install", "write_plugins">>

\* Game::install_dir
install_dir(cfg) ==
    IF IsSome(cfg.data_folder)
    THEN Join(cfg.game_folder, Unwrap(cfg.data_folder))
    ELSE cfg.game_folder

NoFolders == [n \in ModNames |-> None]

\* The state Game::add leaves after adding a.zip, b.zip, c.zip to a game
\* initialised by init_game (default deployment), whose install directory
\* exists and holds one file this system did not place.
InitMods ==
    << NewManagedMod("a", Join(downloads_dir(GameName), <<"a.zip">>)),
       NewManagedMod("b", Join(downloads_dir(GameName), <<"b.zip">>)),
       NewManagedMod("c", Join(downloads_dir(GameName), <<"c.zip">>)) >>

\* Names a game can be registered under.
GameNames == {"skyrim", "fallout"}

\* No deploy has run: the plugins file does not exist and nothing has been
\* observed.
InitIdle ==
    /\ plugins = None
    /\ pc = "idle"
    /\ result = NoResult
    /\ stages = <<>>
    /\ toolInvoked = {}
    /\ toolFailed = {}
    /\ fomodAsked = {}
    /\ fomodDone = {}
    /\ folders = NoFolders
    /\ pluginMods = <<>>
    /\ startPlugins = None
    /\ hist = <<>>

\* GlobalConfig::default(), no per-game config file written.
InitNoGames ==
    /\ games = {}
    /\ active_game = None
    /\ gconfigs = [n \in GameNames |-> None]
    /\ initRes = None

\* Game::get_mod has not been called.
InitNoLookup ==
    /\ query = <<>>
    /\ lookup = None

Init ==
    /\ config \in [game_folder : {<<"game">>},
                   data_folder : {Some(<<"Data">>)},
                   plugins_file : {None, Some(<<"plugins.txt">>)},
                   deployment : {"Hardlink"}]
    /\ mods = InitMods
    /\ files = [p \in {Join(install_dir(config), <<"user.ini">>)} |-> External]
    /\ dirs = {config.game_folder, install_dir(config)}
    /\ InitIdle
    /\ faults = 0
    /\ InitNoGames
    /\ sources = {}
    /\ saved = None
    /\ InitNoLookup

----------------------------------------------------------------------------
\* Filesystem helpers

Exists(fs, path) == path \in DOMAIN fs.files \/ path \in fs.dirs

IsEmptyDir(fs, dir) ==
    /\ \A p \in DOMAIN fs.files : ~(IsPrefix(dir, p) /\ p # dir)
    /\ \A d \in fs.dirs : ~(IsPrefix(dir, d) /\ d # dir)

\* utils::remove_path(top, rel): a file is unlinked, a directory is removed
\* only if it is empty, a path that does not exist is not an error.
remove_path(fs, top, rel) ==
    LET p == Join(top, rel) IN
    IF p \in DOMAIN fs.files
    THEN [fs EXCEPT !.files = [q \in DOMAIN fs.files \ {p} |-> fs.files[q]]]
    ELSE IF p \in fs.dirs /\ IsEmptyDir(fs, p)
    THEN [fs EXCEPT !.dirs = fs.dirs \ {p}]
    ELSE fs

\* utils::create_dirs(path): creates the parent directories of path.
create_dirs(fs, path) ==
    [fs EXCEPT !.dirs = fs.dirs \cup
        {SubSeq(path, 1, k) : k \in 1..(Len(path) - 1)}]

\* The match on the deployment method: fs::hard_link for Hardlink, a
\* symbolic link (a hard link on Windows) for Symlink.  Either call fails
\* when the link path exists; otherwise the new file resolves to src.
Link(fs, method, src, dst) ==
    IF Exists(fs, dst)
    THEN [fs |-> fs, result |-> "AlreadyExists"]
    ELSE CASE method = "Hardlink" ->
                [fs |-> [fs EXCEPT !.files =
                            [q \in DOMAIN fs.files \cup {dst} |->
                                IF q = dst THEN src ELSE fs.files[q]]],
                 result |-> Ok]
           [] method = "Symlink" ->
                [fs |-> [fs EXCEPT !.files =
                            [q \in DOMAIN fs.files \cup {dst} |->
                                IF q = dst THEN src ELSE fs.files[q]]],
                 result |-> Ok]

----------------------------------------------------------------------------
\* Game::extract

ToolOutcomes == {"success", "failure", "error"}

\* NeedsExtract without the test of extracted.
NeedsExtractIgnoringExtracted(mm) == mm.enabled

\* The guard of the extraction loop's body.
NeedsExtract(mm) == mm.enabled /\ mm.extracted = None

\* ExtractOne without the test of the exit status.
ExtractOneRecordingFailure(mm, outcome) ==
    [mm EXCEPT !.extracted = Some(extracted_dir(GameName, mm.name))]

\* One run of the archive tool that was spawned: extracted is recorded only
\* when it exits successfully.
ExtractOne(mm, outcome) ==
    IF outcome = "success"
    THEN [mm EXCEPT !.extracted = Some(extracted_dir(GameName, mm.name))]
    ELSE mm

\* The loop of Game::extract from entry i on.  st holds the mods, the mods
\* the tool was run for, those it failed for and the value returned.
\* tool[n] is what running the tool for mod n does: exit successfully, exit
\* unsuccessfully, or fail to run at all (the `?` on output()).
RECURSIVE ExtractLoop(_, _, _)
ExtractLoop(st, i, tool) ==
    IF i > Len(st.mods) THEN st
    ELSE LET mm == st.mods[i] IN
         IF ~NeedsExtract(mm) THEN ExtractLoop(st, i + 1, tool)
         ELSE IF tool[mm.name] = "error"
         THEN [st EXCEPT !.result = "Io"]
         ELSE ExtractLoop(
                [st EXCEPT !.mods[i] = ExtractOne(mm, tool[mm.name]),
                           !.invoked = @ \cup {mm.name},
                           !.failed = IF tool[mm.name] = "failure"
                                      THEN @ \cup {mm.name} ELSE @],
                i + 1, tool)

\* What the tool can do in one run of extract; it is only run for the mods
\* that need extracting.
ToolRuns(ms) ==
    {tool \in [ModNames -> ToolOutcomes] :
        \A n \in ModNames :
            (\A i \in 1..Len(ms) : ms[i].name = n => ~NeedsExtract(ms[i]))
                => tool[n] = "success"}

extract(ms, tool) ==
    ExtractLoop([mods |-> ms, invoked |-> {}, failed |-> {}, result |-> Ok],
                1, tool)

----------------------------------------------------------------------------
\* Game::uninstall

\* The file name of an entry in place of its path relative to the root.
UninstallTargetByName(root, path) ==
    IF path = root THEN <<>> ELSE <<path[Len(path)]>>

\* What uninstall asks remove_path to remove for an entry of the walk of
\* root: extraced_diff(&file_entry.path()).unwrap().
UninstallTarget(root, path) == Unwrap(differ(root, path))

\* The inner loop: remove_path for every entry of the walk, from entry k on.
RECURSIVE UninstallEntries(_, _, _, _, _)
UninstallEntries(fs, top, root, walk, k) ==
    IF k > Len(walk) THEN fs
    ELSE UninstallEntries(
            remove_path(fs, top, UninstallTarget(root, walk[k].path)),
            top, root, walk, k + 1)

\* The outer loop from entry i on.  broken is the mod whose extraction tree
\* cannot be walked (the `?` on the walk's entry), None when all can.
RECURSIVE UninstallLoop(_, _, _, _, _)
UninstallLoop(st, ms, cfg, i, broken) ==
    IF i > Len(ms) THEN st
    ELSE LET mm == ms[i] IN
         IF mm.extracted = None THEN UninstallLoop(st, ms, cfg, i + 1, broken)
         ELSE IF broken = Some(mm.name)
         THEN [st EXCEPT !.result = "Io"]
         ELSE UninstallLoop(
                [st EXCEPT !.fs = UninstallEntries(
                                      st.fs, install_dir(cfg),
                                      Unwrap(mm.extracted),
                                      WalkDir(Unwrap(mm.extracted)), 1)],
                ms, cfg, i + 1, broken)

uninstall(fs, ms, cfg, broken) ==
    UninstallLoop([fs |-> fs, result |-> Ok], ms, cfg, 1, broken)

----------------------------------------------------------------------------
\* Game::install

SelectorError == <<<<"error">>>>

\* What fomod::pseudo_fomod can return for a mod: an ordered sequence of
\* subdirectories of its extraction tree, none of them twice, or an error.
SelectorResults(name) ==
    {parts \in UNION {[1..n -> SubDirs(name)] : n \in 0..MaxParts} :
        \A x, y \in 1..Len(parts) : parts[x] = parts[y] => x = y}

\* The search for a file named ModuleConfig.xml in the extraction tree.
HasModuleConfig(extracted) ==
    \E k \in 1..Len(WalkDir(extracted)) :
        file_name(WalkDir(extracted)[k].path) = Some("ModuleConfig.xml")

\* The mods whose archive holds a ModuleConfig.xml.
FomodMods ==
    {n \in ModNames :
        \E k \in 1..Len(ArchiveTree(n)) :
            file_name(ArchiveTree(n)[k].path) = Some("ModuleConfig.xml")}

\* One answer for each mod the selector can be run for.
SelectorAnswers ==
    {sel \in [FomodMods ->
                UNION {SelectorResults(n) \cup {SelectorError} : n \in FomodMods}] :
        \A n \in FomodMods : sel[n] \in SelectorResults(n) \cup {SelectorError}}

\* FolderSource with the search for ModuleConfig.xml consulted first.
FolderSourceConfigFirst(mm) ==
    IF HasModuleConfig(Unwrap(mm.extracted)) THEN "selector"
    ELSE IF mm.parts # <<>> THEN "parts"
    ELSE "root"

\* Who decides the install folders: the recorded parts, the selector, or
\* nobody (the extraction root is used).
FolderSource(mm) ==
    IF mm.parts # <<>> THEN "parts"
    ELSE IF HasModuleConfig(Unwrap(mm.extracted)) THEN "selector"
    ELSE "root"

\* The files of one folder, from entry k of its walk on.
RECURSIVE InstallEntries(_, _, _, _, _, _)
InstallEntries(fs, cfg, top, folder, walk, k) ==
    IF k > Len(walk) THEN [fs |-> fs, result |-> Ok]
    ELSE IF ~walk[k].isFile
    THEN InstallEntries(fs, cfg, top, folder, walk, k + 1)
    ELSE LET rel == Unwrap(differ(folder, walk[k].path))
             extracted_path == Join(folder, rel)
             install_path == Join(top, rel)
             linked == Link(create_dirs(fs, install_path), cfg.deployment,
                            extracted_path, install_path)
         IN IF linked.result # Ok THEN linked
            ELSE InstallEntries(linked.fs, cfg, top, folder, walk, k + 1)

\* The install folders of one mod, from folder j on.
RECURSIVE InstallFolders(_, _, _, _, _)
InstallFolders(fs, cfg, top, fldrs, j) ==
    IF j > Len(fldrs) THEN [fs |-> fs, result |-> Ok]
    ELSE LET done == InstallEntries(fs, cfg, top, fldrs[j],
                                    WalkDir(fldrs[j]), 1)
         IN IF done.result # Ok THEN done
            ELSE InstallFolders(done.fs, cfg, top, fldrs, j + 1)

\* The outer loop from entry i on.  sel[n] is what the selector returns
\* when it is run for mod n.
RECURSIVE InstallLoop(_, _, _, _)
InstallLoop(st, cfg, i, sel) ==
    IF i > Len(st.mods) THEN st
    ELSE LET mm == st.mods[i] IN
         IF ~(IsSome(mm.extracted) /\ mm.enabled)
         THEN InstallLoop(st, cfg, i + 1, sel)
         ELSE LET source == FolderSource(mm)
                  asked == IF source = "selector"
                           THEN st.asked \cup {mm.name} ELSE st.asked
              IN IF source = "selector" /\ sel[mm.name] = SelectorError
                 THEN [st EXCEPT !.asked = asked, !.result = "Io"]
                 ELSE LET fldrs == CASE source = "parts" -> mm.parts
                                     [] source = "selector" -> sel[mm.name]
                                     [] OTHER -> <<Unwrap(mm.extracted)>>
                          stored == IF source = "selector"
                                    THEN [mm EXCEPT !.parts = sel[mm.name]]
                                    ELSE mm
                          done == InstallFolders(st.fs, cfg, install_dir(cfg),
                                                 fldrs, 1)
                          st2 == [st EXCEPT
                                    !.mods[i] = stored,
                                    !.asked = asked,
                                    !.stored = IF source = "selector"
                                               THEN @ \cup {mm.name} ELSE @,
                                    !.folders[mm.name] = Some(fldrs),
                                    !.fs = done.fs,
                                    !.result = done.result]
                      IN IF done.result # Ok THEN st2
                         ELSE InstallLoop(st2, cfg, i + 1, sel)

install(fs, ms, cfg, sel) ==
    InstallLoop([mods |-> ms, fs |-> fs, asked |-> {}, stored |-> {},
                 folders |-> NoFolders, result |-> Ok],
                cfg, 1, sel)

----------------------------------------------------------------------------
\* Game::write_plugins

PluginLine(path) == "*" \o Unwrap(file_name(path))

\* The test applied to every entry of a walk: its extension is one of
\* esp, esm, esl.
IsPluginEntry(e) ==
    /\ IsSome(extension(e.path))
    /\ Unwrap(extension(e.path)) \in PluginExtensions

\* The lines written for one source root, from entry k of its walk on.
RECURSIVE WalkLines(_, _)
WalkLines(walk, k) ==
    IF k > Len(walk) THEN <<>>
    ELSE IF IsPluginEntry(walk[k])
    THEN <<PluginLine(walk[k].path)>> \o WalkLines(walk, k + 1)
    ELSE WalkLines(walk, k + 1)

\* The lines written for one mod: its part_paths, from path j on.
RECURSIVE PathsLines(_, _)
PathsLines(paths, j) ==
    IF j > Len(paths) THEN <<>>
    ELSE WalkLines(WalkDir(paths[j]), 1) \o PathsLines(paths, j + 1)

\* The guard of the loop over mods.
WritesLines(mm) == mm.enabled

\* The lines written for the mods from entry i on, each with its mod.
RECURSIVE ModsLines(_, _)
ModsLines(ms, i) ==
    IF i > Len(ms) THEN <<>>
    ELSE IF WritesLines(ms[i])
    THEN LET lines == PathsLines(part_paths(ms[i]), 1)
         IN [k \in 1..Len(lines) |-> [line |-> lines[k], mod |-> ms[i].name]]
            \o ModsLines(ms, i + 1)
    ELSE ModsLines(ms, i + 1)

\* written is the new content of the plugins file (None: the file is left as
\* it was), by the mods that produced its lines.  createFails: File::create
\* returns an error.
write_plugins(ms, cfg, createFails) ==
    IF cfg.plugins_file = None
    THEN [written |-> None, by |-> <<>>, result |-> Ok]
    ELSE IF createFails
    THEN [written |-> None, by |-> <<>>, result |-> "Io"]
    ELSE LET out == ModsLines(ms, 1)
         IN [written |-> Some([k \in 1..Len(out) |-> out[k].line]),
             by |-> [k \in 1..Len(out) |-> out[k].mod],
             result |-> Ok]

----------------------------------------------------------------------------
\* Game::deploy, one step per stage

\* AfterStage without the `?`.
AfterStageIgnoringErrors(stage, res) ==
    CASE stage = "extract" -> "uninstall"
      [] stage = "uninstall" -> "install"
      [] stage = "install" -> "write_plugins"
      [] OTHER -> "idle"

\* The `?` after each stage: an error ends deploy, success moves on.
AfterStage(stage, res) ==
    IF res # Ok THEN "idle"
    ELSE CASE stage = "extract" -> "uninstall"
           [] stage = "uninstall" -> "install"
           [] stage = "install" -> "write_plugins"
           [] OTHER -> "idle"

\* What a finished deploy left behind.
Outcome(res, f, d, p, failed) ==
    [result |-> res, files |-> f, dirs |-> d, plugins |-> p,
     undisturbed |-> (res # "Io" /\ failed = {})]

\* Only the latest outcome is kept.
Record(h, o) == <<o>>

\* A stage the environment disturbed is counted, up to MaxFaults.
Disturbs(disturbed) ==
    /\ disturbed => faults < MaxFaults
    /\ faults' = IF disturbed THEN faults + 1 ELSE faults

\* The bookkeeping common to the four stages.
StageEnds(stage, res, f, d, p, failed) ==
    /\ pc' = AfterStage(stage, res)
    /\ stages' = Append(stages, [stage |-> stage, result |-> res])
    /\ result' = IF pc' = "idle" THEN res ELSE NoResult
    /\ hist' = IF pc' = "idle"
               THEN Record(hist, Outcome(res, f, d, p, failed))
               ELSE hist

Extract ==
    /\ pc = "idle"
    /\ \E tool \in ToolRuns(mods) :
         \E st \in {extract(mods, tool)} :
         /\ Disturbs(st.result = "Io" \/ st.failed # {})
         /\ mods' = st.mods
         /\ toolInvoked' = st.invoked
         /\ toolFailed' = st.failed
         /\ fomodAsked' = {}
         /\ folders' = NoFolders
         /\ startPlugins' = plugins
         /\ pc' = AfterStage("extract", st.result)
         /\ stages' = <<[stage |-> "extract", result |-> st.result]>>
         /\ result' = IF pc' = "idle" THEN st.result ELSE NoResult
         /\ hist' = IF pc' = "idle"
                    THEN Record(hist, Outcome(st.result, files, dirs, plugins,
                                              st.failed))
                    ELSE hist
    /\ UNCHANGED <<auxVars, config, files, dirs, plugins, fomodDone, pluginMods>>

Uninstall ==
    /\ pc = "uninstall"
    /\ \E broken \in {None} \cup {Some(n) : n \in ModNames} :
         \E st \in {uninstall([files |-> files, dirs |-> dirs], mods, config,
                             broken)} :
         /\ Disturbs(st.result = "Io")
         /\ files' = st.fs.files
         /\ dirs' = st.fs.dirs
         /\ StageEnds("uninstall", st.result, st.fs.files, st.fs.dirs, plugins,
                      toolFailed)
    /\ UNCHANGED <<auxVars, config, mods, plugins, toolInvoked, toolFailed, fomodAsked,
                   fomodDone, folders, pluginMods, startPlugins>>

Install ==
    /\ pc = "install"
    /\ \E sel \in SelectorAnswers :
         \E st \in {install([files |-> files, dirs |-> dirs], mods, config, sel)} :
         /\ Disturbs(st.result = "Io")
         /\ mods' = st.mods
         /\ files' = st.fs.files
         /\ dirs' = st.fs.dirs
         /\ fomodAsked' = st.asked
         /\ fomodDone' = fomodDone \cup st.stored
         /\ folders' = st.folders
         /\ StageEnds("install", st.result, st.fs.files, st.fs.dirs, plugins,
                      toolFailed)
    /\ UNCHANGED <<auxVars, config, plugins, toolInvoked, toolFailed, pluginMods,
                   startPlugins>>

WritePlugins ==
    /\ pc = "write_plugins"
    /\ \E createFails \in BOOLEAN :
         \E w \in {write_plugins(mods, config, createFails)} :
         /\ Disturbs(w.result = "Io")
         /\ plugins' = IF IsSome(w.written) THEN w.written ELSE plugins
         /\ pluginMods' = IF IsSome(w.written) THEN w.by ELSE pluginMods
         /\ StageEnds("write_plugins", w.result, files, dirs, plugins',
                      toolFailed)
    /\ UNCHANGED <<auxVars, config, mods, files, dirs, toolInvoked, toolFailed,
                   fomodAsked, fomodDone, folders, startPlugins>>

----------------------------------------------------------------------------
\* Enabling and disabling a mod between deploys: the entry Game::get_mod
\* hands out is changed in place.

SetEnabled(i, on) ==
    /\ pc = "idle"
    /\ mods[i].enabled # on
    /\ mods' = [mods EXCEPT ![i].enabled = on]
    /\ result' = NoResult
    /\ stages' = <<>>
    /\ toolInvoked' = {}
    /\ toolFailed' = {}
    /\ fomodAsked' = {}
    /\ folders' = NoFolders
    /\ startPlugins' = None
    /\ hist' = <<>>
    /\ UNCHANGED <<auxVars, config, files, dirs, plugins, pc, fomodDone, pluginMods,
                   faults>>

Enable == \E i \in 1..Len(mods) : SetEnabled(i, TRUE)

Disable == \E i \in 1..Len(mods) : SetEnabled(i, FALSE)

Next ==
    \/ Enable
    \/ Disable
    \/ Extract
    \/ Uninstall
    \/ Install
    \/ WritePlugins

Spec == Init /\ [][Next]_vars

----------------------------------------------------------------------------
\* Vocabulary of the properties

Last(seq) == seq[Len(seq)]

\* A deploy has finished and mods was not changed since.
JustDeployed == pc = "idle" /\ hist # <<>>

\* The step is the extract stage of a deploy: it starts from "idle" and is
\* not the enabling or disabling of a mod.
ExtractStep ==
    /\ pc = "idle"
    /\ \A i \in 1..Len(mods) : mods'[i].enabled = mods[i].enabled

InstallPath(rel) == Join(install_dir(config), rel)

\* The files placed by this system: every file but the ones it found there.
Managed == {p \in DOMAIN files : files[p] # External}

\* The source roots a mod is deployed from once its parts are settled: its
\* parts, or its extraction root when it has no ModuleConfig.xml.
SourceRoots(mm) ==
    IF mm.extracted = None THEN <<>>
    ELSE IF mm.parts # <<>> THEN mm.parts
    ELSE IF HasModuleConfig(Unwrap(mm.extracted)) THEN <<>>
    ELSE <<Unwrap(mm.extracted)>>

\* The relative paths of the files a mod contributes.
Contributes(mm) ==
    UNION {{SubSeq(WalkDir(SourceRoots(mm)[j])[k].path,
                   Len(SourceRoots(mm)[j]) + 1,
                   Len(WalkDir(SourceRoots(mm)[j])[k].path)) :
              k \in {x \in 1..Len(WalkDir(SourceRoots(mm)[j])) :
                        WalkDir(SourceRoots(mm)[j])[x].isFile}} :
           j \in 1..Len(SourceRoots(mm))}

Deployable(mm) == mm.enabled /\ IsSome(mm.extracted)

\* The last deployable mod in mods order that contributes rel, 0 if none.
LastContributor(rel) ==
    LET is == {i \in 1..Len(mods) :
                  Deployable(mods[i]) /\ rel \in Contributes(mods[i])}
    IN IF is = {} THEN 0 ELSE CHOOSE i \in is : \A j \in is : j <= i

----------------------------------------------------------------------------
\* C1  Order precedence: when two enabled, extracted mods A before B both
\* contribute the relative path rel, an undisturbed deploy returns Ok and the
\* file at install_dir/rel then resolves to a source file of the last such
\* mod in mods order.
C1_OrderPrecedence ==
    (JustDeployed /\ hist[1].undisturbed) =>
        \A i, j \in 1..Len(mods) :
            (/\ i < j
             /\ Deployable(mods[i])
             /\ Deployable(mods[j])) =>
                \A rel \in Contributes(mods[i]) \cap Contributes(mods[j]) :
                    /\ result = Ok
                    /\ InstallPath(rel) \in DOMAIN files
                    /\ OwnerOf(files[InstallPath(rel)])
                         = Some(mods[LastContributor(rel)].name)

\* C2  Idempotent deploy: when a deploy that returned Ok is followed, with
\* mods unchanged and no environment fault in either, by a second deploy,
\* the second returns Ok too and leaves the same install directory and the
\* same plugins file as the first.
C2_IdempotentDeploy ==
    [][(/\ hist # <<>>
        /\ hist' # <<>>
        /\ hist[1].result = Ok
        /\ hist[1].undisturbed
        /\ hist'[1].undisturbed) => hist'[1] = hist[1]]_vars

\* C3  Uninstall completeness: right after uninstall has run on a state in
\* which every mod's extracted directory is recorded, no file placed by an
\* earlier install is left in the install directory.
C3_UninstallCompleteness ==
    (/\ pc = "install"
     /\ \A i \in 1..Len(mods) : IsSome(mods[i].extracted)) => Managed = {}

\* C4  After a successful deploy no file of the install directory resolves
\* to a source file of a disabled mod, and every relative path a disabled
\* mod shares with an enabled one resolves to the enabled mod's source.
C4_DisabledModDropped ==
    (JustDeployed /\ result = Ok) =>
        /\ \A p \in Managed :
              \A i \in 1..Len(mods) :
                  OwnerOf(files[p]) = Some(mods[i].name) => mods[i].enabled
        /\ \A i, j \in 1..Len(mods) :
              (/\ ~mods[i].enabled
               /\ Deployable(mods[j])) =>
                  \A rel \in Contributes(mods[i]) \cap Contributes(mods[j]) :
                      /\ InstallPath(rel) \in DOMAIN files
                      /\ OwnerOf(files[InstallPath(rel)])
                           = Some(mods[LastContributor(rel)].name)

\* C5  Parts override discovery: in an install run, for every enabled,
\* extracted mod whose parts list is non-empty, the selector is not run and
\* the install folders used are exactly the recorded parts, even when the
\* mod's tree holds a ModuleConfig.xml.
C5_PartsOverrideDiscovery ==
    [][pc = "install" =>
        \A i \in 1..Len(mods) :
            (Deployable(mods[i]) /\ mods[i].parts # <<>>) =>
                /\ mods[i].name \notin fomodAsked'
                /\ mods'[i].parts = mods[i].parts
                /\ IsSome(folders'[mods[i].name]) =>
                      Unwrap(folders'[mods[i].name]) = mods[i].parts]_vars

\* An install has used the parts recorded by an earlier deploy for a mod
\* with a ModuleConfig.xml, without running the selector.
C5_Witness ==
    \E i \in 1..Len(mods) :
        /\ pc = "write_plugins"
        /\ mods[i].parts # <<>>
        /\ mods[i].name \in FomodMods
        /\ mods[i].name \notin fomodAsked
        /\ folders[mods[i].name] = Some(mods[i].parts)

\* C6  The selector is run at most once per mod: once its result for a mod
\* has been stored in parts, no later install runs it for that mod again.
C6_SelectorAtMostOnce ==
    [][pc = "install" => fomodAsked' \cap fomodDone = {}]_vars

\* A regular file whose extension is esp, esm or esl.
IsPluginFile(e) ==
    /\ e.isFile
    /\ IsSome(extension(e.path))
    /\ Unwrap(extension(e.path)) \in PluginExtensions

\* One line "*<basename>" per plugin file below root, in walk order.
FileLines(root) ==
    LET found == SelectSeq(WalkDir(root), IsPluginFile)
    IN [k \in 1..Len(found) |-> "*" \o Last(found[k].path)]

RECURSIVE RootsLines(_, _)
RootsLines(roots, j) ==
    IF j > Len(roots) THEN <<>>
    ELSE FileLines(roots[j]) \o RootsLines(roots, j + 1)

RECURSIVE ExpectedManifest(_, _)
ExpectedManifest(ms, i) ==
    IF i > Len(ms) THEN <<>>
    ELSE (IF ms[i].enabled THEN RootsLines(part_paths(ms[i]), 1) ELSE <<>>)
         \o ExpectedManifest(ms, i + 1)

\* C7  Plugin order law: with plugins_file configured, the manifest a
\* successful deploy leaves is the concatenation, over the enabled mods in
\* mods order and each mod's part_paths in order, of one line "*<basename>"
\* per file with extension esp, esm or esl in walk order.
C7_PluginOrderLaw ==
    (JustDeployed /\ result = Ok /\ IsSome(config.plugins_file)) =>
        plugins = Some(ExpectedManifest(mods, 1))

\* C8  Extraction failure is swallowed per mod: an unsuccessful exit of the
\* archive tool raises no error and does not stop the loop (every enabled,
\* unextracted mod is still tried unless the tool cannot be run at all), the
\* failed mod's extracted stays unset, and in the same deploy no file is
\* placed and no manifest line written for it.
C8_ExtractionFailureSwallowed ==
    [][/\ ExtractStep =>
            /\ Last(stages').result \in {Ok, "Io"}
            /\ Last(stages').result = Ok =>
                  /\ pc' = "uninstall"
                  /\ toolInvoked' =
                        {mods[i].name : i \in
                            {j \in 1..Len(mods) :
                                mods[j].enabled /\ mods[j].extracted = None}}
       /\ \A i \in 1..Len(mods) :
            mods'[i].name \in toolFailed' =>
                /\ mods'[i].extracted = None
                /\ folders'[mods'[i].name] = None
                /\ \A p \in DOMAIN files' :
                      OwnerOf(files'[p]) # Some(mods'[i].name)
                /\ \A k \in 1..Len(pluginMods') :
                      pluginMods'[k] # mods'[i].name]_vars

\* A deploy finished with Ok and wrote the manifest although the tool had
\* failed for one mod, and a mod after the failed one was extracted in it.
C8_Witness ==
    /\ pc = "idle"
    /\ result = Ok
    /\ IsSome(plugins)
    /\ Len(stages) = 4
    /\ \E i, j \in 1..Len(mods) :
          /\ i < j
          /\ mods[i].name \in toolFailed
          /\ mods[i].enabled
          /\ mods[j].name \in toolInvoked \ toolFailed
          /\ IsSome(mods[j].extracted)
          /\ Unwrap(plugins) # <<>>

\* C9  extracted is set exactly once: the archive tool is run for a mod only
\* while the mod is enabled and its extracted is unset, extracted only ever
\* changes from unset to <library>/<game>/extracted/<name>, and once set it
\* is never changed and the tool is not run for that mod again.
C9_ExtractedSetOnce ==
    [][\A i \in 1..Len(mods) :
          /\ mods'[i].name = mods[i].name
          /\ (ExtractStep /\ mods[i].name \in toolInvoked') =>
                (mods[i].enabled /\ mods[i].extracted = None)
          /\ mods'[i].extracted # mods[i].extracted =>
                /\ ExtractStep
                /\ mods[i].extracted = None
                /\ mods'[i].extracted
                     = Some(<<"lib", GameName, "extracted", mods[i].name>>)]_vars

\* A deploy is past its extract stage, and the tool was not run in it for an
\* enabled mod that an earlier deploy had extracted.
C9_Witness ==
    \E i \in 1..Len(mods) :
        /\ pc = "uninstall"
        /\ hist # <<>>
        /\ mods[i].enabled
        /\ IsSome(mods[i].extracted)
        /\ mods[i].name \notin toolInvoked

\* C10  Deploy runs extract, uninstall, install, write_plugins in this order,
\* each at most once; a stage starts only if every earlier stage returned
\* Ok; deploy returns what its last stage returned; and when uninstall or
\* install returns an error the plugins file is left as it was when the
\* deploy started.
C10_StageOrder ==
    /\ Len(stages) <= Len(StageOrder)
    /\ \A k \in 1..Len(stages) :
          /\ stages[k].stage = StageOrder[k]
          /\ k < Len(stages) => stages[k].result = Ok
    /\ pc # "idle" =>
          /\ stages # <<>>
          /\ Last(stages).result = Ok
          /\ Len(stages) < Len(StageOrder)
          /\ pc = StageOrder[Len(stages) + 1]
    /\ (pc = "idle" /\ stages # <<>>) =>
          /\ result = Last(stages).result
          /\ result = Ok => Len(stages) = Len(StageOrder)
          /\ (result # Ok /\ Last(stages).stage \in {"uninstall", "install"})
                => plugins = startPlugins

\* A deploy was aborted by an error of install and left the manifest that an
\* earlier deploy had written.
C10_Witness ==
    /\ pc = "idle"
    /\ stages # <<>>
    /\ Last(stages).stage = "install"
    /\ result = "AlreadyExists"
    /\ IsSome(plugins)
    /\ plugins = startPlugins

----------------------------------------------------------------------------
\* The per-game config file

\* A serialisation of ManagedMod that leaves extracted out.
ModTomlSkippingExtracted(mm) ==
    [k \in {"enabled", "archive", "parts"} |->
        CASE k = "enabled" -> mm.enabled
          [] k = "archive" -> mm.archive
          [] OTHER -> mm.parts]

\* toml::to_string_pretty of a ManagedMod: one key per field, and no key for
\* a field that is None.
ModToml(mm) ==
    [k \in {"enabled", "archive", "parts"}
           \cup (IF IsSome(mm.extracted) THEN {"extracted"} ELSE {}) |->
        CASE k = "enabled" -> mm.enabled
          [] k = "archive" -> mm.archive
          [] k = "parts" -> mm.parts
          [] OTHER -> Unwrap(mm.extracted)]

\* toml::to_string_pretty(&self.config): the fields in declaration order, the
\* mods as one table per entry in map order, no key for a field that is None.
ConfigToml(cfg, ms) ==
    [k \in {"game_folder", "deployment", "mods"}
           \cup (IF IsSome(cfg.data_folder) THEN {"data_folder"} ELSE {})
           \cup (IF IsSome(cfg.plugins_file) THEN {"plugins_file"} ELSE {}) |->
        CASE k = "game_folder" -> cfg.game_folder
          [] k = "deployment" -> cfg.deployment
          [] k = "data_folder" -> Unwrap(cfg.data_folder)
          [] k = "plugins_file" -> Unwrap(cfg.plugins_file)
          [] OTHER -> [i \in 1..Len(ms) |->
                          [name |-> ms[i].name, table |-> ModToml(ms[i])]]]

\* toml::from_slice into Config (#[serde(default)]): a key that is missing
\* gives the field's default.
ConfigFromToml(doc) ==
    [game_folder |-> IF "game_folder" \in DOMAIN doc THEN doc["game_folder"]
                     ELSE <<>>,
     data_folder |-> IF "data_folder" \in DOMAIN doc
                     THEN Some(doc["data_folder"]) ELSE None,
     plugins_file |-> IF "plugins_file" \in DOMAIN doc
                      THEN Some(doc["plugins_file"]) ELSE None,
     deployment |-> IF "deployment" \in DOMAIN doc THEN doc["deployment"]
                    ELSE "Hardlink"]

ModFromToml(name, t) ==
    [name |-> name,
     enabled |-> IF "enabled" \in DOMAIN t THEN t["enabled"] ELSE FALSE,
     extracted |-> IF "extracted" \in DOMAIN t THEN Some(t["extracted"])
                   ELSE None,
     archive |-> IF "archive" \in DOMAIN t THEN t["archive"] ELSE <<>>,
     parts |-> IF "parts" \in DOMAIN t THEN t["parts"] ELSE <<>>]

ModsFromToml(doc) ==
    IF "mods" \in DOMAIN doc
    THEN [i \in 1..Len(doc["mods"]) |->
             ModFromToml(doc["mods"][i].name, doc["mods"][i].table)]
    ELSE <<>>

----------------------------------------------------------------------------
\* GlobalConfig

GameFolders == {<<"games", "one">>, <<"games", "two">>}
DataFolders == {None, Some(<<"Data">>)}
PluginsFiles == {None, Some(<<"plugins.txt">>)}

\* What Game::save returns: written, the write failed, or the config could
\* not be serialised.
SaveOutcomes == {Ok, "Io", "Toml"}

\* DeploymentMethod::default()
DefaultDeployment == "Hardlink"

\* The Config of the Game value init_game builds (its mods are empty).
NewConfig(folder, data, plug) ==
    [game_folder |-> folder, data_folder |-> data, plugins_file |-> plug,
     deployment |-> DefaultDeployment]

\* The check init_game starts with, on the active game alone.
AlreadyManagedActiveOnly(g, name) == g.active_game = Some(name)

\* The check init_game starts with.
AlreadyManaged(g, name) == name \in g.games

\* Making name the active game without entering it in games.
RegisterActiveOnly(g, name) ==
    [games |-> g.games, active_game |-> Some(name)]

\* What init_game does to the GlobalConfig once the check has passed: name
\* becomes the active game and is entered in games.
Register(g, name) ==
    [games |-> g.games \cup {name}, active_game |-> Some(name)]

\* GlobalConfig::init_game.  save is what the explicit Game::save returns,
\* drop what the save in the Game's release hook returns (its error is only
\* printed), dirOk whether library::downloads_dir succeeds.
init_game(g, disk, name, folder, data, plug, save, drop, dirOk) ==
    IF AlreadyManaged(g, name)
    THEN [games |-> g.games, active_game |-> g.active_game, disk |-> disk,
          mutated |-> FALSE, result |-> <<"AlreadyManaged", name>>]
    ELSE [games |-> Register(g, name).games,
          active_game |-> Register(g, name).active_game,
          disk |-> IF save = Ok \/ drop = Ok
                   THEN [disk EXCEPT
                           ![name] = Some(ConfigToml(NewConfig(folder, data,
                                                              plug), <<>>))]
                   ELSE disk,
          mutated |-> TRUE,
          result |-> IF save # Ok THEN <<save>>
                     ELSE IF ~dirOk THEN <<"Io">>
                     ELSE <<Ok>>]

\* GlobalConfig::game
game(g, disk, name) ==
    IF name \notin g.games THEN "UnknownGame"
    ELSE IF IsSome(disk[name]) THEN Ok ELSE "Io"

\* GlobalConfig::active_game
active_game_call(g, disk) ==
    IF g.active_game = None THEN "NoActiveGame"
    ELSE game(g, disk, Unwrap(g.active_game))

InitGame ==
    /\ \E name \in GameNames, folder \in GameFolders, data \in DataFolders,
          pl \in PluginsFiles, save \in SaveOutcomes, drop \in SaveOutcomes,
          dirOk \in BOOLEAN :
         /\ (save = "Toml") <=> (drop = "Toml")
         /\ \E st \in {init_game([games |-> games, active_game |-> active_game],
                                 gconfigs, name, folder, data, pl, save, drop,
                                 dirOk)} :
              /\ games' = st.games
              /\ active_game' = st.active_game
              /\ gconfigs' = st.disk
              /\ initRes' = Some([name |-> name, folder |-> folder,
                                  data |-> data, plugins |-> pl,
                                  mutated |-> st.mutated
                                              \/ (IsSome(initRes)
                                                  /\ Unwrap(initRes).mutated),
                                  result |-> st.result])
    /\ UNCHANGED <<deployVars, sources, saved, query, lookup>>

\* A fresh library: no game registered, nothing deployed.
InitGlobal ==
    /\ config = NewConfig(<<"games", "one">>, None, None)
    /\ mods = <<>>
    /\ files = [p \in {} |-> External]
    /\ dirs = {}
    /\ InitIdle
    /\ faults = 0
    /\ InitNoGames
    /\ sources = {}
    /\ saved = None
    /\ InitNoLookup

NextGlobal == InitGame

SpecGlobal == InitGlobal /\ [][NextGlobal]_vars

\* The step is a call of init_game (a call that changes nothing at all and
\* returns what the call before it returned is not told from no call).
InitGameStep == initRes' # initRes

\* The per-game config file of name holds exactly the paths of the call c,
\* the default deployment method and no mods.
HoldsSupplied(disk, c) ==
    /\ IsSome(disk[c.name])
    /\ ConfigFromToml(Unwrap(disk[c.name]))
         = [game_folder |-> c.folder, data_folder |-> c.data,
            plugins_file |-> c.plugins, deployment |-> "Hardlink"]
    /\ ModsFromToml(Unwrap(disk[c.name])) = <<>>

C19_FailedInitChangesNothing ==
    [][InitGameStep =>
        /\ Unwrap(initRes').result # <<Ok>> =>
             UNCHANGED <<games, active_game>>
        /\ \A n \in games' : IsSome(gconfigs'[n])]_vars

\* C20  After any sequence of init_game calls active_game is absent or a
\* member of games, so active_game() never fails with UnknownGame; it fails
\* with NoActiveGame exactly when no call has got past the AlreadyManaged
\* check yet.
C20_ActiveGameKnown ==
    /\ active_game = None \/ Unwrap(active_game) \in games
    /\ active_game_call([games |-> games, active_game |-> active_game],
                        gconfigs) # "UnknownGame"
    /\ active_game_call([games |-> games, active_game |-> active_game],
                        gconfigs) = "NoActiveGame"
         <=> ~(IsSome(initRes) /\ Unwrap(initRes).mutated)

\* Both names were registered, the second by a call that then failed to
\* write its config: it is the active game and a member of games, and
\* active_game() fails on reading the config, not with UnknownGame.
C20_Witness ==
    /\ games = GameNames
    /\ IsSome(initRes)
    /\ Unwrap(initRes).result = <<"Io">>
    /\ active_game = Some(Unwrap(initRes).name)
    /\ active_game_call([games |-> games, active_game |-> active_game],
                        gconfigs) = "Io"

----------------------------------------------------------------------------
\* Game::add

\* The archive files a user has to add, and a path without a file name.
AllSources ==
    {<<"dl", "a.zip">>, <<"alt", "a.7z">>, <<"dl", "c.zip">>}
NoFileName == <<"dl", "..">>

\* Path::file_stem of the archive names: the file name up to its last dot.
NameStem(name) ==
    CASE name = "a.zip" -> Some("a")
      [] name = "a.7z" -> Some("a")
      [] name = "b.zip" -> Some("b")
      [] name = "c.zip" -> Some("c")
      [] OTHER -> Some(name)

file_stem(path) ==
    IF file_name(path) = None THEN None
    ELSE NameStem(Unwrap(file_name(path)))

\* The lists of paths a call of add is given.
AddInputs ==
    UNION {[1..n -> AllSources \cup {NoFileName}] : n \in 1..MaxAdd}

\* An insert that leaves the value of a key that is present as it is.
InsertKeepingExisting(ms, mm) ==
    IF \E i \in 1..Len(ms) : ms[i].name = mm.name THEN ms ELSE Append(ms, mm)

\* IndexMap::insert: the value of a key that is present is replaced where it
\* stands, a new key is appended.
Insert(ms, mm) ==
    IF \E i \in 1..Len(ms) : ms[i].name = mm.name
    THEN [i \in 1..Len(ms) |-> IF ms[i].name = mm.name THEN mm ELSE ms[i]]
    ELSE Append(ms, mm)

\* The loop of Game::add from its i-th path on.  st holds the mods, the
\* source files that (still) exist and the result so far; fs::rename and
\* fs::copy fail for a source that does not exist, and `?` ends the call.
RECURSIVE AddLoop(_, _, _, _)
AddLoop(st, paths, mv, i) ==
    IF i > Len(paths) THEN st
    ELSE IF file_name(paths[i]) = None THEN AddLoop(st, paths, mv, i + 1)
    ELSE IF paths[i] \notin st.sources THEN [st EXCEPT !.result = "Io"]
    ELSE AddLoop(
           [mods |-> Insert(st.mods,
                            NewManagedMod(
                              Unwrap(file_stem(paths[i])),
                              Join(downloads_dir(GameName),
                                   <<Unwrap(file_name(paths[i]))>>))),
            sources |-> IF mv THEN st.sources \ {paths[i]} ELSE st.sources,
            result |-> st.result],
           paths, mv, i + 1)

add(ms, srcs, paths, mv) ==
    AddLoop([mods |-> ms, sources |-> srcs, result |-> Ok], paths, mv, 1)

\* Game::add(paths, mv) between deploys.
Add(paths, mv) ==
    /\ pc = "idle"
    /\ \E st \in {add(mods, sources, paths, mv)} :
         /\ mods' = st.mods
         /\ sources' = st.sources
         /\ result' = st.result
    /\ stages' = <<>>
    /\ toolInvoked' = {}
    /\ toolFailed' = {}
    /\ fomodAsked' = {}
    /\ folders' = NoFolders
    /\ startPlugins' = None
    /\ hist' = <<>>
    /\ UNCHANGED <<config, files, dirs, plugins, pc, fomodDone, pluginMods,
                   faults, games, active_game, gconfigs, initRes, saved, query,
                   lookup>>

AddSome == \E paths \in AddInputs, mv \in BOOLEAN : Add(paths, mv)

\* A game whose mod a was added from a.zip (by copying it), deployed, and
\* then disabled and removed from the install directory again; all three
\* archives are there to add.
InitAdd ==
    /\ config = [game_folder |-> <<"game">>, data_folder |-> Some(<<"Data">>),
                 plugins_file |-> None, deployment |-> "Hardlink"]
    /\ mods = <<[NewManagedMod("a", Join(downloads_dir(GameName),
                                         <<"a.zip">>))
                   EXCEPT !.extracted = Some(extracted_dir(GameName, "a"))]>>
    /\ files = [p \in {Join(install_dir(config), <<"user.ini">>)} |-> External]
    /\ dirs = {config.game_folder, install_dir(config)}
    /\ InitIdle
    /\ faults = MaxFaults
    /\ InitNoGames
    /\ sources = AllSources
    /\ saved = None
    /\ InitNoLookup

NextAdd ==
    \/ AddSome
    \/ Enable
    \/ Disable

SpecAdd == InitAdd /\ [][NextAdd]_vars

\* The j-th path of a call still names a file when the loop reaches it.
StillThere(paths, mv, j) ==
    /\ paths[j] \in sources
    /\ mv => \A h \in 1..(j - 1) : paths[h] # paths[j]

\* The k-th path of a call is added: it has a file name, and no path with a
\* file name up to it failed to be moved or copied.
IsAdded(paths, mv, k) ==
    /\ file_name(paths[k]) # None
    /\ \A j \in 1..k : file_name(paths[j]) # None => StillThere(paths, mv, j)

AddedWithStem(paths, mv, s) ==
    {k \in 1..Len(paths) : IsAdded(paths, mv, k) /\ file_stem(paths[k]) = Some(s)}

EntryOf(ms, s) ==
    IF \E i \in 1..Len(ms) : ms[i].name = s
    THEN Some(ms[CHOOSE i \in 1..Len(ms) : ms[i].name = s])
    ELSE None

Max(S) == CHOOSE x \in S : \A y \in S : y <= x

\* C12  After a call of add every name occurs at most once in mods, and the
\* entry of a stem for which a source was added is the fresh record of the
\* last such source: archive = downloads/<basename>, not enabled, no
\* extracted, no parts.  The entries of the other stems are as before;
\* sources without a file name add nothing.
C12_AddLaw ==
    [][\A paths \in AddInputs, mv \in BOOLEAN :
         Add(paths, mv) =>
           /\ \A i, j \in 1..Len(mods') :
                mods'[i].name = mods'[j].name => i = j
           /\ \A s \in ModNames :
                LET ks == AddedWithStem(paths, mv, s) IN
                IF ks = {} THEN EntryOf(mods', s) = EntryOf(mods, s)
                ELSE EntryOf(mods', s)
                       = Some([name |-> s,
                               archive |->
                                 Join(downloads_dir(GameName),
                                      <<Unwrap(file_name(paths[Max(ks)]))>>),
                               enabled |-> FALSE,
                               extracted |-> None,
                               parts |-> <<>>])]_vars

\* Both archives with stem a were moved into the library, a.7z last: the
\* one entry of a, still before that of c, is the fresh record of a.7z.
C12_Witness ==
    /\ Len(mods) = 2
    /\ mods[1] = [name |-> "a",
                  archive |-> Join(downloads_dir(GameName), <<"a.7z">>),
                  enabled |-> FALSE, extracted |-> None, parts |-> <<>>]
    /\ mods[2].name = "c"
    /\ <<"dl", "a.zip">> \notin sources
    /\ <<"alt", "a.7z">> \notin sources

----------------------------------------------------------------------------
\* The release hook of Game

\* Drop for Game, followed by the Game::open of the next command.  A save
\* that fails is printed and nothing else happens to it.
ReleaseWith(out) ==
    /\ pc = "idle"
    /\ saved' = IF out = Ok THEN Some(ConfigToml(config, mods)) ELSE saved
    /\ mods' = ModsFromToml(Unwrap(saved'))
    /\ UNCHANGED <<config, files, dirs, plugins, pc, result, stages,
                   toolInvoked, toolFailed, fomodAsked, fomodDone, folders,
                   pluginMods, startPlugins, hist, faults, games,
                   active_game, gconfigs, initRes, sources, query, lookup>>

Release == \E out \in SaveOutcomes : ReleaseWith(out)

\* A game initialised by init_game with nothing added yet, its config file
\* written, and two archives to add.  The environment disturbs no deploy
\* stage here: the only failures are those of the operations themselves and
\* of the save.
InitSession ==
    /\ config = [game_folder |-> <<"game">>, data_folder |-> Some(<<"Data">>),
                 plugins_file |-> None, deployment |-> "Hardlink"]
    /\ mods = <<>>
    /\ files = [p \in {Join(install_dir(config), <<"user.ini">>)} |-> External]
    /\ dirs = {config.game_folder, install_dir(config)}
    /\ InitIdle
    /\ faults = MaxFaults
    /\ InitNoGames
    /\ sources = {<<"dl", "a.zip">>, <<"dl", "c.zip">>}
    /\ saved = Some(ConfigToml(config, mods))
    /\ InitNoLookup

\* The Game value was opened and not changed yet: memory is what the config
\* file holds.
JustOpened == saved = Some(ConfigToml(config, mods))

\* One command per Game value: an operation starts on a Game as opened, and
\* the Game is released before the next one is opened.
Command ==
    /\ JustOpened
    /\ \/ AddSome
       \/ Enable
       \/ Disable
       \/ Extract

NextSession ==
    \/ Command
    \/ Uninstall
    \/ Install
    \/ WritePlugins
    \/ Release

SpecSession == InitSession /\ [][NextSession]_vars

\* C14  Scoped persistence: whenever a Game is released, after add, after
\* enabling or disabling through get_mod, after a deploy, also one that
\* failed part-way, the persisted config equals the in-memory config at
\* release; a failure of the save itself changes nothing and reaches nobody.
C14_ScopedPersistence ==
    [][\A out \in SaveOutcomes :
         ReleaseWith(out) =>
           /\ out = Ok =>
                /\ IsSome(saved')
                /\ ConfigFromToml(Unwrap(saved')) = config
                /\ ModsFromToml(Unwrap(saved')) = mods
           /\ out # Ok => saved' = saved
           /\ result' = result
           /\ pc' = "idle"]_vars

\* A deploy stored the selector's answer in parts and then failed on a file
\* that was already there; the Game was released, and the config file holds
\* the extracted and parts values that deploy recorded.
C14_Witness ==
    /\ pc = "idle"
    /\ result = "AlreadyExists"
    /\ IsSome(saved)
    /\ ModsFromToml(Unwrap(saved)) = mods
    /\ \E i \in 1..Len(mods) :
         /\ mods[i].parts # <<>>
         /\ IsSome(mods[i].extracted)

----------------------------------------------------------------------------
\* Game::get_mod.  Names are sequences of characters here.

Chars == {"a", "A", "b", "B"}

\* char::to_lowercase on these characters.
LowerChar(ch) ==
    CASE ch = "A" -> "a"
      [] ch = "B" -> "b"
      [] OTHER -> ch

\* str::to_lowercase
to_lowercase(str) == [i \in 1..Len(str) |-> LowerChar(str[i])]

\* str::contains: needle occurs in hay as a run of consecutive characters.
contains(hay, needle) ==
    \E off \in 0..(Len(hay) - Len(needle)) :
        SubSeq(hay, off + 1, off + Len(needle)) = needle

\* The names of the mods of the lookups, and the orders the map can hold
\* any of them in.
LookupNames == {<<"a">>, <<"A">>, <<"b", "a">>, <<"A", "B">>}
LookupMods ==
    {ns \in UNION {[1..n -> LookupNames] : n \in 0..Cardinality(LookupNames)} :
        \A i, j \in 1..Len(ns) : ns[i] = ns[j] => i = j}
Queries == UNION {[1..n -> Chars] : n \in 0..MaxQuery}

\* Game::get_mod: the position and the name of the entry it hands out, or
\* the error.  The query is lowercased into a variable of the same name,
\* which is what the error is built from.
get_mod(ms, name) ==
    LET lowered == to_lowercase(name)
        hits == {i \in 1..Len(ms) : contains(to_lowercase(ms[i].name), lowered)}
    IN IF hits = {}
       THEN [ok |-> FALSE, error |-> <<"UnknownMod", lowered>>]
       ELSE [ok |-> TRUE,
             index |-> CHOOSE i \in hits : \A j \in hits : i <= j,
             name |-> ms[CHOOSE i \in hits : \A j \in hits : i <= j].name]

GetMod ==
    /\ lookup = None
    /\ lookup' = Some(get_mod(mods, query))
    /\ UNCHANGED <<deployVars, games, active_game, gconfigs, initRes, sources,
                   saved, query>>

\* Any mods map over the names, any query.
InitGetMod ==
    /\ config = [game_folder |-> <<"game">>, data_folder |-> Some(<<"Data">>),
                 plugins_file |-> None, deployment |-> "Hardlink"]
    /\ \E ns \in LookupMods :
         mods = [i \in 1..Len(ns) |->
                    NewManagedMod(ns[i], Join(downloads_dir(GameName), <<"m.zip">>))]
    /\ files = [p \in {Join(install_dir(config), <<"user.ini">>)} |-> External]
    /\ dirs = {config.game_folder, install_dir(config)}
    /\ InitIdle
    /\ faults = MaxFaults
    /\ InitNoGames
    /\ sources = {}
    /\ saved = None
    /\ query \in Queries
    /\ lookup = None

NextGetMod == GetMod

SpecGetMod == InitGetMod /\ [][NextGetMod]_vars

\* The entries whose lowercased name contains the lowercased query.
Matches == {i \in 1..Len(mods) :
              contains(to_lowercase(mods[i].name), to_lowercase(query))}

\* C13  get_mod returns the first entry, in iteration order, whose
\* lowercased name contains the lowercased query, and fails with UnknownMod
\* carrying the query exactly when no entry's name matches.
C13_GetModLaw ==
    IsSome(lookup) =>
      IF Matches = {}
      THEN Unwrap(lookup) = [ok |-> FALSE, error |-> <<"UnknownMod", query>>]
      ELSE /\ Unwrap(lookup).ok
           /\ Unwrap(lookup).index \in Matches
           /\ \A j \in Matches : Unwrap(lookup).index <= j
           /\ Unwrap(lookup).name = mods[Unwrap(lookup).index].name

----------------------------------------------------------------------------
\* The install directory over adds and deploys

\* A game with a.zip and b.zip added, a.zip still there to be added again.
\* The install directory holds the game's own files: one at its root, one
\* in a directory that mod b has files for too, and one named like a file
\* that b holds in a subdirectory.  The environment disturbs no stage.
InitTree ==
    /\ config = [game_folder |-> <<"game">>, data_folder |-> Some(<<"Data">>),
                 plugins_file |-> None, deployment |-> "Hardlink"]
    /\ mods = << NewManagedMod("a", Join(downloads_dir(GameName), <<"a.zip">>)),
                 NewManagedMod("b", Join(downloads_dir(GameName), <<"b.zip">>)) >>
    /\ files = [p \in {Join(install_dir(config), <<"user.ini">>),
                       Join(install_dir(config), <<"alt", "user.txt">>),
                       Join(install_dir(config), <<"head.nif">>)} |-> External]
    /\ dirs = {config.game_folder, install_dir(config),
               Join(install_dir(config), <<"alt">>)}
    /\ InitIdle
    /\ faults = MaxFaults
    /\ InitNoGames
    /\ sources = {<<"dl", "a.zip">>}
    /\ saved = None
    /\ InitNoLookup

NextTree ==
    \/ AddSome
    \/ Enable
    \/ Disable
    \/ Extract
    \/ Uninstall
    \/ Install
    \/ WritePlugins

SpecTree == InitTree /\ [][NextTree]_vars

\* The paths, relative to the extraction root, of the entries of the
\* extracted trees that mods records.
ExtractedRels ==
    UNION {{SubSeq(WalkDir(Unwrap(mods[i].extracted))[k].path,
                   Len(Unwrap(mods[i].extracted)) + 1,
                   Len(WalkDir(Unwrap(mods[i].extracted))[k].path)) :
              k \in 1..Len(WalkDir(Unwrap(mods[i].extracted)))} :
           i \in {j \in 1..Len(mods) : IsSome(mods[j].extracted)}}

\* The path of a file or directory of the install directory relative to it.
InstallRel(p) ==
    SubSeq(p, Len(install_dir(config)) + 1, Len(p))

\* The directories strictly below the install directory.
InstallSubDirs(ds) ==
    {d \in ds : IsPrefix(install_dir(config), d) /\ d # install_dir(config)}

\* C15  After uninstall every directory of the install tree that existed
\* only to hold managed files is gone (a directory that remains holds a file
\* this system did not place), and the install directory itself is still
\* there.
C15_DirectoriesRemoved ==
    pc = "install" =>
      /\ install_dir(config) \in dirs
      /\ \A d \in InstallSubDirs(dirs) :
           \E p \in DOMAIN files : IsPrefix(d, p) /\ files[p] = External

\* C16  Uninstall leaves unmanaged content alone: every file it removes is
\* at the relative path of an entry of a recorded extracted tree, every
\* directory it removes held no file at another path, and it succeeds
\* although paths it computes do not exist in the install directory.
C16_UnmanagedLeftAlone ==
    [][pc = "uninstall" =>
         /\ \A p \in DOMAIN files \ DOMAIN files' :
              InstallRel(p) \in ExtractedRels
         /\ \A d \in dirs \ dirs' :
              \A p \in DOMAIN files :
                IsPrefix(d, p) => InstallRel(p) \in ExtractedRels
         /\ pc' = "install"]_vars

\* An uninstall has removed the files of b, which had been installed next
\* to the game's own files: those are all still there, alt with its file
\* too, and b's own directory geom.esp is what shows b had been installed.
C16_Witness ==
    /\ pc = "install"
    /\ DOMAIN files = {Join(install_dir(config), <<"user.ini">>),
                       Join(install_dir(config), <<"alt", "user.txt">>),
                       Join(install_dir(config), <<"head.nif">>)}
    /\ Join(install_dir(config), <<"alt">>) \in dirs
    /\ Join(install_dir(config), <<"geom.esp">>) \in dirs

\* C18  Between operations, every file the installer placed that still
\* exists lies at the relative path of an entry of the recorded extracted
\* tree of some mod, so that the next uninstall removes it.
C18_InstalledFilesCovered ==
    pc = "idle" =>
      \A p \in Managed : InstallRel(p) \in ExtractedRels

----------------------------------------------------------------------------
\* The manifest against the install

\* C17  In a deploy that wrote the manifest, for every enabled mod the
\* source roots write_plugins walks (part_paths) are the install folders
\* install used for it, also for a mod with a ModuleConfig.xml whose selector
\* returned the empty sequence; a mod install skipped has no roots.
C17_ManifestRootsAreInstallFolders ==
    (JustDeployed /\ result = Ok /\ IsSome(config.plugins_file)) =>
        \A i \in 1..Len(mods) :
            mods[i].enabled =>
                IF IsSome(folders[mods[i].name])
                THEN part_paths(mods[i]) = Unwrap(folders[mods[i].name])
                ELSE part_paths(mods[i]) = <<>>

====
